---- MODULE Spec2Model ----
(***************************************************************************)
(* Half-duplex bus scheduler of operating-system/OS-lab3/batch-scheduler.c *)
(* One thread per task runs get_slot; transfer_data; release_slot.  The    *)
(* shared state is the seven static counters and the six Pintos counting   *)
(* semaphores.  A step of the model is the code a thread runs between two  *)
(* points where it can block (a sema_down) or leave the critical section.  *)
(* The threads of one class (direction x priority) run the same code on    *)
(* equal task_t records and even share their thread name, so the model     *)
(* records, per class, how many threads stand at each position.            *)
(***************************************************************************)
EXTENDS Integers, Sequences, FiniteSets, TLC

\* ---- program constants ----
BUS_CAPACITY == 3
MAX_NUM_OF_TASKS == 200
SEND == 0
RECEIVE == 1
NORMAL == 0
PRIORITY == 1
IDLE == 0 - 1
\* distributed-system/lab-1/server/http_server.go
MAX_CLIENTS == 10

\* ---- bounds of the model ----
MaxBatch == 5
MaxConnections == 12    \* clients that connect to the HTTP server

VARIABLES
  sched,                \* position of batch_scheduler: "init" | "running"
  threads,              \* threads[c][l]: number of task threads of class c at position l
  bus_slots, mutex,     \* semaphore values
  sems,                 \* values of the four has_*_semaphore
  bus_direction, task_on_bus, waiting_task,
  waitcnt,              \* the four wait counters
  \* the HTTP server of distributed-system/lab-1/server/http_server.go
  clients,              \* clients that have not connected yet
  backlog,              \* connections established, not yet returned by Accept
  acceptor,             \* position of main's loop: "accept" | "acquire" | "spawn"
  semaphore,            \* len(semaphore), the buffered channel of main
  handling,             \* handleConnection goroutines before their deferred <-semaphore
  closing               \* handleConnection goroutines after it, before conn.Close() returns

busvars == <<sched, threads, bus_slots, mutex, sems,
             bus_direction, task_on_bus, waiting_task, waitcnt>>
servervars == <<clients, backlog, acceptor, semaphore, handling, closing>>
vars == <<busvars, servervars>>

\* names of the source's variables
send_task == waitcnt.send_task
receiver_task == waitcnt.receiver_task
send_priority_task == waitcnt.send_priority_task
recv_priority_task == waitcnt.recv_priority_task
has_sender_semaphore == sems.send_task
has_receiver_semaphore == sems.receiver_task
has_sender_priority_semaphore == sems.send_priority_task
has_receiver_priority_semaphore == sems.recv_priority_task

\* a class is named after the wait counter get_slot passes to wait_to_be_onboard
Classes == {"send_task", "receiver_task", "send_priority_task", "recv_priority_task"}

\* positions of a task thread in run_task
Locs == {"created",      \* thread created, before sema_down(&mutex) of get_slot
         "gs_test",      \* holds mutex, before the admission test
         "waiting",      \* in wait_to_be_onboard, at sema_down(sem)
         "woken",        \* in wait_to_be_onboard, at sema_down(&mutex)
         "gs_slot",      \* holds mutex, at sema_down(&bus_slots), not via a wait
         "gs_slot_w",    \* holds mutex, at sema_down(&bus_slots), after a wake
         "onboard",      \* returned from get_slot
         "transferred",  \* transfer_data done, at sema_down(&mutex) of release_slot
         "rs_cs",        \* holds mutex in release_slot
         "done"}         \* returned from release_slot

\* the task_t of the threads of a class
task_t(c) ==
  [direction |-> IF c \in {"send_task", "send_priority_task"} THEN SEND ELSE RECEIVE,
   priority |-> IF c \in {"send_priority_task", "recv_priority_task"} THEN PRIORITY ELSE NORMAL]

\* variant: get_slot passes the normal pair of the direction for every task
ClassOf_NormalOnly(task) ==
  IF task.direction = SEND THEN "send_task" ELSE "receiver_task"

\* the counter/semaphore pair get_slot passes to wait_to_be_onboard
ClassOf(task) ==
  IF task.priority = PRIORITY
    THEN (IF task.direction = SEND THEN "send_priority_task" ELSE "recv_priority_task")
    ELSE (IF task.direction = SEND THEN "send_task" ELSE "receiver_task")

\* the priority wait counter of a direction
PriorityClass(d) == IF d = SEND THEN "send_priority_task" ELSE "recv_priority_task"

other_direction(d) == IF d = SEND THEN RECEIVE ELSE SEND

\* one thread of class c steps from position a to position b
Move(c, a, b) ==
  /\ threads[c][a] > 0
  /\ threads' = [threads EXCEPT ![c] = [@ EXCEPT ![a] = @ - 1, ![b] = @ + 1]]
  /\ UNCHANGED servervars

\* number of threads of class c at one of the positions L
RECURSIVE SumOver(_, _)
SumOver(f, S) == IF S = {} THEN 0
                 ELSE LET x == CHOOSE y \in S : TRUE IN f[x] + SumOver(f, S \ {x})

At(c, L) == SumOver(threads[c], L)
AtAll(L) == SumOver([c \in Classes |-> At(c, L)], Classes)

\* ---- C arithmetic ----
\* a < b after the usual arithmetic conversions of an int and an unsigned int:
\* both operands are compared as 32-bit unsigned values, so a negative
\* operand (bit pattern >= 2^31) is larger than every non-negative one
UnsignedLess(a, b) == IF (a < 0) = (b < 0) THEN a < b ELSE b < 0

\* #define MIN(a, b) a < b ? a : b  with a : int, b : unsigned int;
\* the result is stored in an int, which keeps the chosen bit pattern
MIN(a, b) == IF UnsignedLess(a, b) THEN a ELSE b

\* ---- the HTTP server before its first connection ----
ServerInit ==
  /\ clients = MaxConnections
  /\ backlog = 0
  /\ acceptor = "accept"
  /\ semaphore = 0
  /\ handling = 0
  /\ closing = 0

\* ---- init_bus ----
\* variant: the slot semaphore is initialised without permits
Init_NoSlots ==
  /\ sched = "init"
  /\ threads = [c \in Classes |-> [l \in Locs |-> 0]]
  /\ bus_slots = 0
  /\ mutex = 1
  /\ sems = [c \in Classes |-> 0]
  /\ bus_direction = IDLE
  /\ task_on_bus = 0
  /\ waiting_task = 0
  /\ waitcnt = [c \in Classes |-> 0]
  /\ ServerInit

Init ==
  /\ sched = "init"
  /\ threads = [c \in Classes |-> [l \in Locs |-> 0]]
  /\ bus_slots = BUS_CAPACITY
  /\ mutex = 1
  /\ sems = [c \in Classes |-> 0]
  /\ bus_direction = IDLE
  /\ task_on_bus = 0
  /\ waiting_task = 0
  /\ waitcnt = [c \in Classes |-> 0]
  /\ ServerInit

\* ---- batch_scheduler: creates one thread per task ----
\* the parameters are unsigned int: their sum is taken modulo 2^32, computed
\* here on 16-bit halves (a sum of four halves stays far below 2^31)
Half == 65536

SumLow(a, b, c, d) == (a % Half) + (b % Half) + (c % Half) + (d % Half)

SumHigh(a, b, c, d) ==
  (a \div Half) + (b \div Half) + (c \div Half) + (d \div Half)
    + (SumLow(a, b, c, d) \div Half)

\* the ASSERT of lines 125-126, on the 32-bit sum
AssertHolds(a, b, c, d) ==
  /\ SumHigh(a, b, c, d) % Half = 0
  /\ SumLow(a, b, c, d) % Half <= MAX_NUM_OF_TASKS

\* the number of tasks asked for is more than tasks[] holds
TotalExceeds(a, b, c, d) ==
  \/ SumHigh(a, b, c, d) > 0
  \/ SumLow(a, b, c, d) > MAX_NUM_OF_TASKS

\* a failed ASSERT panics before anything else is done; a sum that wrapped
\* passes it and the loops write tasks[j] beyond tasks[MAX_NUM_OF_TASKS - 1]:
\* the behaviour is undefined from there on, the model stops following the
\* threads and lets the overrun overwrite the bus's static counters
batch_scheduler(num_priority_send, num_priority_receive, num_tasks_send, num_tasks_receive) ==
  /\ sched = "init"
  /\ UNCHANGED servervars
  /\ IF ~AssertHolds(num_tasks_send, num_tasks_receive,
                     num_priority_send, num_priority_receive)
       THEN /\ sched' = "panic"
            /\ UNCHANGED <<threads, bus_slots, mutex, sems, bus_direction,
                           task_on_bus, waiting_task, waitcnt>>
       ELSE IF TotalExceeds(num_tasks_send, num_tasks_receive,
                            num_priority_send, num_priority_receive)
       THEN /\ sched' = "overrun"
            /\ bus_direction' \in {IDLE, SEND, RECEIVE}
            /\ task_on_bus' \in 0..BUS_CAPACITY
            /\ waiting_task' \in 0..BUS_CAPACITY
            /\ UNCHANGED <<threads, bus_slots, mutex, sems, waitcnt>>
       ELSE /\ sched' = "running"
            /\ threads' = [c \in Classes |-> [l \in Locs |->
                  IF l # "created" THEN 0
                  ELSE CASE c = "send_priority_task" -> num_priority_send
                         [] c = "recv_priority_task" -> num_priority_receive
                         [] c = "send_task" -> num_tasks_send
                         [] c = "receiver_task" -> num_tasks_receive]]
            /\ UNCHANGED <<bus_slots, mutex, sems, bus_direction, task_on_bus,
                           waiting_task, waitcnt>>

\* ---- get_slot ----
\* variant: get_slot enters without sema_down(&mutex)
GetSlotLock_NoLock(c) ==
  /\ Move(c, "created", "gs_test")
  /\ mutex' = IF mutex > 0 THEN mutex - 1 ELSE mutex
  /\ UNCHANGED <<sched, bus_slots, sems, bus_direction,
                 task_on_bus, waiting_task, waitcnt>>

\* sema_down(&mutex) at the head of get_slot
GetSlotLock(c) ==
  /\ mutex > 0
  /\ Move(c, "created", "gs_test")
  /\ mutex' = mutex - 1
  /\ UNCHANGED <<sched, bus_slots, sems, bus_direction,
                 task_on_bus, waiting_task, waitcnt>>

\* variant: the admission test without the direction test of lines 230-232
must_wait_NoDirection(task) ==
  IF task_on_bus >= BUS_CAPACITY THEN TRUE
  ELSE IF task.priority = NORMAL
    THEN (IF task.direction = SEND /\ send_priority_task > 0 THEN TRUE
          ELSE IF task.direction = RECEIVE /\ recv_priority_task > 0 THEN TRUE
          ELSE FALSE)
  ELSE FALSE

\* variant: a task also waits when a priority task of the other direction
\* is queued
must_wait_DeferToOpposite(task) ==
  IF task_on_bus >= BUS_CAPACITY THEN TRUE
  ELSE IF bus_direction # IDLE /\ bus_direction # task.direction THEN TRUE
  ELSE IF waitcnt[PriorityClass(other_direction(task.direction))] > 0 THEN TRUE
  ELSE IF task.priority = NORMAL
    THEN (IF task.direction = SEND /\ send_priority_task > 0 THEN TRUE
          ELSE IF task.direction = RECEIVE /\ recv_priority_task > 0 THEN TRUE
          ELSE FALSE)
  ELSE FALSE

must_wait(task) ==
  IF task_on_bus >= BUS_CAPACITY THEN TRUE
  ELSE IF bus_direction # IDLE /\ bus_direction # task.direction THEN TRUE
  ELSE IF task.priority = NORMAL
    THEN (IF task.direction = SEND /\ send_priority_task > 0 THEN TRUE
          ELSE IF task.direction = RECEIVE /\ recv_priority_task > 0 THEN TRUE
          ELSE FALSE)
  ELSE FALSE

\* the admission test; on must_wait the first half of wait_to_be_onboard:
\* counter += 1; sema_up(&mutex); and the thread reaches sema_down(sem)
AdmissionTest(c) ==
  /\ IF must_wait(task_t(c))
       THEN /\ Move(c, "gs_test", "waiting")
            /\ waitcnt' = [waitcnt EXCEPT ![ClassOf(task_t(c))] = @ + 1]
            /\ mutex' = mutex + 1
       ELSE /\ Move(c, "gs_test", "gs_slot")
            /\ UNCHANGED <<waitcnt, mutex>>
  /\ UNCHANGED <<sched, bus_slots, sems, bus_direction, task_on_bus,
                 waiting_task>>

\* wait_to_be_onboard: sema_down(sem) succeeds
SemaDownClass(c) ==
  /\ sems[ClassOf(task_t(c))] > 0
  /\ Move(c, "waiting", "woken")
  /\ sems' = [sems EXCEPT ![ClassOf(task_t(c))] = @ - 1]
  /\ UNCHANGED <<sched, bus_slots, mutex, bus_direction,
                 task_on_bus, waiting_task, waitcnt>>

\* variant: the woken task leaves waiting_task as it is
Reacquire_KeepReserved(c) ==
  /\ mutex > 0
  /\ Move(c, "woken", "gs_slot_w")
  /\ mutex' = mutex - 1
  /\ waitcnt' = [waitcnt EXCEPT ![ClassOf(task_t(c))] = @ - 1]
  /\ UNCHANGED <<sched, bus_slots, sems, bus_direction, task_on_bus, waiting_task>>

\* wait_to_be_onboard: sema_down(&mutex); counter -= 1; waiting_task -= 1
Reacquire(c) ==
  /\ mutex > 0
  /\ Move(c, "woken", "gs_slot_w")
  /\ mutex' = mutex - 1
  /\ waitcnt' = [waitcnt EXCEPT ![ClassOf(task_t(c))] = @ - 1]
  /\ waiting_task' = waiting_task - 1
  /\ UNCHANGED <<sched, bus_slots, sems, bus_direction, task_on_bus>>

\* Board with a sema_down(&bus_slots) that does not block on an empty bus
Board_NoSlotWait(c, from) ==
  /\ Move(c, from, "onboard")
  /\ bus_slots' = bus_slots - 1
  /\ task_on_bus' = task_on_bus + 1
  /\ bus_direction' = task_t(c).direction
  /\ mutex' = mutex + 1
  /\ UNCHANGED <<sched, sems, waiting_task, waitcnt>>

\* Board that forgets task_on_bus++
Board_NoCount(c, from) ==
  /\ bus_slots > 0
  /\ Move(c, from, "onboard")
  /\ bus_slots' = bus_slots - 1
  /\ task_on_bus' = task_on_bus
  /\ bus_direction' = task_t(c).direction
  /\ mutex' = mutex + 1
  /\ UNCHANGED <<sched, sems, waiting_task, waitcnt>>

\* sema_down(&bus_slots); task_on_bus++; bus_direction = direction; sema_up(&mutex)
Board(c, from) ==
  /\ bus_slots > 0
  /\ Move(c, from, "onboard")
  /\ bus_slots' = bus_slots - 1
  /\ task_on_bus' = task_on_bus + 1
  /\ bus_direction' = task_t(c).direction
  /\ mutex' = mutex + 1
  /\ UNCHANGED <<sched, sems, waiting_task, waitcnt>>

\* ---- transfer_data ----
transfer_data(c) ==
  /\ Move(c, "onboard", "transferred")
  /\ UNCHANGED <<sched, bus_slots, mutex, sems, bus_direction,
                 task_on_bus, waiting_task, waitcnt>>

\* ---- release_slot ----
ReleaseLock(c) ==
  /\ mutex > 0
  /\ Move(c, "transferred", "rs_cs")
  /\ mutex' = mutex - 1
  /\ UNCHANGED <<sched, bus_slots, sems, bus_direction,
                 task_on_bus, waiting_task, waitcnt>>

\* wakeup_waiting_task whose loop forgets waiting_task++
wakeup_waiting_task_NoReserve(st, sem, waiting) ==
  LET empty_bus_slots == BUS_CAPACITY - st.task_on_bus - st.waiting_task
      to_wake == MIN(empty_bus_slots, waiting)
      n == IF to_wake > 0 THEN to_wake ELSE 0
  IN [st EXCEPT !.sems = [@ EXCEPT ![sem] = @ + n],
                !.ret = to_wake]

\* wakeup_waiting_task on the state st = [sems, waiting_task, task_on_bus, ret]
wakeup_waiting_task(st, sem, waiting) ==
  LET empty_bus_slots == BUS_CAPACITY - st.task_on_bus - st.waiting_task
      to_wake == MIN(empty_bus_slots, waiting)
      n == IF to_wake > 0 THEN to_wake ELSE 0
  IN [st EXCEPT !.sems = [@ EXCEPT ![sem] = @ + n],
                !.waiting_task = @ + n,
                !.ret = to_wake]

\* variant: the pass serves the normal class without serving the priority
\* class first
WakePass_NormalOnly(st, d) ==
  LET norm == IF d = SEND THEN "send_task" ELSE "receiver_task"
      s2 == IF waitcnt[PriorityClass(other_direction(d))] = 0
              THEN wakeup_waiting_task(st, norm, waitcnt[norm])
              ELSE [st EXCEPT !.ret = 0]
      can_aboard == s2.ret
  IN [s2 EXCEPT !.bus_direction = IF can_aboard > 0 THEN d ELSE @,
                !.woken = @ + (s2.waiting_task - st.waiting_task)]

\* variant: the pass serves the normal class whatever the other direction's
\* priority counter is
WakePass_NoOppositeTest(st, d) ==
  LET prio == PriorityClass(d)
      norm == IF d = SEND THEN "send_task" ELSE "receiver_task"
      s1 == wakeup_waiting_task(st, prio, waitcnt[prio])
      s2 == wakeup_waiting_task(s1, norm, waitcnt[norm])
      can_aboard == s1.ret + s2.ret
  IN [s2 EXCEPT !.bus_direction = IF can_aboard > 0 THEN d ELSE @,
                !.woken = @ + (s2.waiting_task - st.waiting_task)]

\* variant: the pass does not set bus_direction when it has signalled a task
WakePass_KeepDirection(st, d) ==
  LET prio == PriorityClass(d)
      norm == IF d = SEND THEN "send_task" ELSE "receiver_task"
      s1 == wakeup_waiting_task(st, prio, waitcnt[prio])
      s2 == IF waitcnt[PriorityClass(other_direction(d))] = 0
              THEN wakeup_waiting_task(s1, norm, waitcnt[norm])
              ELSE [s1 EXCEPT !.ret = 0]
  IN [s2 EXCEPT !.woken = @ + (s2.waiting_task - st.waiting_task)]

\* one direction pass of release_slot: priority class, then normal class
\* unless the other direction's priority counter is non-zero
WakePass(st, d) ==
  LET prio == PriorityClass(d)
      norm == IF d = SEND THEN "send_task" ELSE "receiver_task"
      s1 == wakeup_waiting_task(st, prio, waitcnt[prio])
      s2 == IF waitcnt[PriorityClass(other_direction(d))] = 0
              THEN wakeup_waiting_task(s1, norm, waitcnt[norm])
              ELSE [s1 EXCEPT !.ret = 0]
      can_aboard == s1.ret + s2.ret
  IN [s2 EXCEPT !.bus_direction = IF can_aboard > 0 THEN d ELSE @,
                !.woken = @ + (s2.waiting_task - st.waiting_task)]

\* release_slot that never resets bus_direction to -1
release_result_NoIdle ==
  LET s0 == [sems |-> sems, waiting_task |-> waiting_task,
             task_on_bus |-> task_on_bus - 1,
             bus_direction |-> bus_direction,
             ret |-> 0, woken |-> 0]
      s1 == IF s0.bus_direction # RECEIVE THEN WakePass(s0, SEND) ELSE s0
      s2 == IF s1.bus_direction # SEND THEN WakePass(s1, RECEIVE) ELSE s1
  IN s2

\* release_slot that runs both passes whatever bus_direction is
release_result_BothPasses ==
  LET s0 == [sems |-> sems, waiting_task |-> waiting_task,
             task_on_bus |-> task_on_bus - 1,
             bus_direction |-> IF task_on_bus - 1 = 0 THEN IDLE ELSE bus_direction,
             ret |-> 0, woken |-> 0]
      s1 == WakePass(s0, SEND)
      s2 == WakePass(s1, RECEIVE)
  IN s2

\* the state release_slot leaves: task_on_bus--, the idle test, the two passes
release_result ==
  LET s0 == [sems |-> sems, waiting_task |-> waiting_task,
             task_on_bus |-> task_on_bus - 1,
             bus_direction |-> IF task_on_bus - 1 = 0 THEN IDLE ELSE bus_direction,
             ret |-> 0, woken |-> 0]
      s1 == IF s0.bus_direction # RECEIVE THEN WakePass(s0, SEND) ELSE s0
      s2 == IF s1.bus_direction # SEND THEN WakePass(s1, RECEIVE) ELSE s1
  IN s2

ReleaseBody(c) ==
  /\ Move(c, "rs_cs", "done")
  /\ task_on_bus' = release_result.task_on_bus
  /\ bus_slots' = bus_slots + 1
  /\ bus_direction' = release_result.bus_direction
  /\ sems' = release_result.sems
  /\ waiting_task' = release_result.waiting_task
  /\ mutex' = mutex + 1
  /\ UNCHANGED <<sched, waitcnt>>

\* ---- the system ----
Batch ==
  \E nps \in 0..MaxBatch, npr \in 0..MaxBatch, ns \in 0..MaxBatch, nr \in 0..MaxBatch :
    /\ nps + npr + ns + nr <= MaxBatch
    /\ batch_scheduler(nps, npr, ns, nr)

Next ==
  \/ Batch
  \/ \E c \in Classes : GetSlotLock(c)
  \/ \E c \in Classes : AdmissionTest(c)
  \/ \E c \in Classes : SemaDownClass(c)
  \/ \E c \in Classes : Reacquire(c)
  \/ \E c \in Classes : Board(c, "gs_slot")
  \/ \E c \in Classes : Board(c, "gs_slot_w")
  \/ \E c \in Classes : transfer_data(c)
  \/ \E c \in Classes : ReleaseLock(c)
  \/ \E c \in Classes : ReleaseBody(c)

Spec == Init /\ [][Next]_vars

\* ---- a batch of normal senders only: batch_scheduler(0, 0, n, 0) ----
MaxSend == 7

BatchSend == \E ns \in 1..MaxSend : batch_scheduler(0, 0, ns, 0)

NextSend ==
  \/ BatchSend
  \/ \E c \in Classes : GetSlotLock(c)
  \/ \E c \in Classes : AdmissionTest(c)
  \/ \E c \in Classes : SemaDownClass(c)
  \/ \E c \in Classes : Reacquire(c)
  \/ \E c \in Classes : Board(c, "gs_slot")
  \/ \E c \in Classes : Board(c, "gs_slot_w")
  \/ \E c \in Classes : transfer_data(c)
  \/ \E c \in Classes : ReleaseLock(c)
  \/ \E c \in Classes : ReleaseBody(c)

SpecSend == Init /\ [][NextSend]_vars

\* ---- vocabulary of the properties ----
\* positions of a thread that has returned from get_slot and has not yet
\* entered the critical section of release_slot
Riding == {"onboard", "transferred"}

RidingDir(d) ==
  SumOver([c \in Classes |-> IF task_t(c).direction = d THEN At(c, Riding) ELSE 0], Classes)

\* threads that have not finished run_task
Unfinished == AtAll(Locs \ {"done"})

SemTotal == SumOver(sems, Classes)

\* ---- properties ----

\* C1: in every reachable state, whatever the interleaving of get_slot and
\* release_slot, 0 <= task_on_bus <= BUS_CAPACITY
Thm_C1_OccupiedWithinCapacity == 0 <= task_on_bus /\ task_on_bus <= BUS_CAPACITY

\* the bus is full again after a release, and a further task is queued in a
\* wait class
Wit_C1_FullBusWithWaiter ==
  task_on_bus = BUS_CAPACITY /\ AtAll({"waiting"}) > 0 /\ AtAll({"done"}) > 0

\* C2: a send task and a receive task are never onboard together, and the
\* direction of the onboard tasks is bus_direction
Cex_C2_OneDirectionOnboard ==
  /\ ~(RidingDir(SEND) > 0 /\ RidingDir(RECEIVE) > 0)
  /\ \A d \in {SEND, RECEIVE} : RidingDir(d) > 0 => bus_direction = d

\* C3: at the step that admits a normal task of direction D (immediately or
\* after a wake) the priority wait counter of D is 0
Cex_C3_NormalDefersToPriority ==
  [][\A c \in {"send_task", "receiver_task"} :
       threads'[c]["onboard"] > threads[c]["onboard"]
         => waitcnt[PriorityClass(task_t(c).direction)] = 0]_vars

\* C4: no reachable state is a deadlock: while some task is unfinished,
\* some task can take a step
Cex_C4_NoDeadlock == Unfinished > 0 => ENABLED Next

\* C5: a task at sema_down(&mutex) of release_slot never faces a controller
\* lock held by a task which is itself blocked on the slot semaphore
Cex_C5_ReleaseNeverBlocked ==
  ~(AtAll({"transferred"}) > 0 /\ mutex = 0 /\ bus_slots = 0
      /\ AtAll({"gs_slot", "gs_slot_w"}) > 0)

\* C6: a woken task that has re-acquired the lock finds a free slot at
\* sema_down(&bus_slots)
Cex_C6_WokenFindsSlot == AtAll({"gs_slot_w"}) > 0 => bus_slots > 0

\* C7: one release_slot signals, over the four class semaphores together, at
\* most BUS_CAPACITY - task_on_bus tasks (task_on_bus after its decrement)
Cex_C7_WakeBudget ==
  [][\A c \in Classes :
       threads'[c]["done"] > threads[c]["done"]
         => SemTotal' - SemTotal <= BUS_CAPACITY - task_on_bus']_vars

\* C8: at the step where a task returns from get_slot, task_on_bus has been
\* incremented for it, stays within BUS_CAPACITY, counts exactly the tasks
\* that hold a slot, and bus_direction is the task's direction
Thm_C8_ReturnMeansGranted ==
  [][\A c \in Classes :
       threads'[c]["onboard"] > threads[c]["onboard"]
         => /\ task_on_bus' = task_on_bus + 1
            /\ task_on_bus' <= BUS_CAPACITY
            /\ task_on_bus' = AtAll({"onboard", "transferred", "rs_cs"})'
            /\ bus_direction' = task_t(c).direction]_vars

\* three tasks have returned from get_slot and hold all the slots, after an
\* earlier task has released its slot
Wit_C8_ThreeReturned ==
  AtAll({"onboard"}) = BUS_CAPACITY /\ waiting_task = 0 /\ AtAll({"done"}) > 0

\* C9 as stated: with the lock free, bus_direction = -1 iff task_on_bus = 0
Cex_C9_IdleIffEmpty == mutex = 1 => (bus_direction = IDLE <=> task_on_bus = 0)

\* C9 amended: with the lock free, bus_direction = -1 implies task_on_bus = 0,
\* and task_on_bus = 0 implies bus_direction = -1 unless a woken task is
\* still on its way (waiting_task > 0)
Thm_C9_IdleImpliesEmpty ==
  mutex = 1 =>
    /\ bus_direction = IDLE => task_on_bus = 0
    /\ task_on_bus = 0 => (bus_direction = IDLE \/ waiting_task > 0)

\* the lock is free, the bus is empty and a release has set the direction
\* for the task it woke
Wit_C9_DirectionReserved ==
  mutex = 1 /\ task_on_bus = 0 /\ bus_direction # IDLE /\ AtAll({"done"}) > 0

\* C10: the four wait counters and waiting_task are never negative
Thm_C10_CountersNonNegative ==
  /\ \A c \in Classes : waitcnt[c] >= 0
  /\ waiting_task >= 0

\* a woken task has re-acquired the lock and decremented its counter and
\* waiting_task
Wit_C10_WokenDecremented == AtAll({"gs_slot_w"}) > 0

\* C11: once no further priority task of direction D can arrive, a normal
\* task queued in the normal wait class of D is eventually admitted; as a
\* property of finite runs: while such a task is queued, the system is not
\* stuck (some task can still take a step)
Cex_C11_QueuedNormalNotStuck ==
  \A c \in {"send_task", "receiver_task"} :
    (/\ At(c, {"waiting"}) > 0
     /\ At(PriorityClass(task_t(c).direction), {"created", "gs_test"}) = 0)
      => ENABLED Next

\* threads of direction d that hold a slot of the bus (get_slot has returned,
\* release_slot has not yet given the slot back)
HoldingDir(d) ==
  SumOver([c \in Classes |-> IF task_t(c).direction = d
                               THEN At(c, {"onboard", "transferred", "rs_cs"})
                               ELSE 0], Classes)

\* batches of at most MaxFair tasks under a scheduler that runs the ready
\* threads in turn while batch_scheduler sleeps (line 193)
MaxFair == 4

BatchFair ==
  \E nps \in 0..MaxFair, npr \in 0..MaxFair,
     ns \in 0..MaxFair, nr \in 0..MaxFair :
    /\ nps + npr + ns + nr <= MaxFair
    /\ batch_scheduler(nps, npr, ns, nr)

NextFair ==
  \/ BatchFair
  \/ \E c \in Classes :
       \/ GetSlotLock(c)
       \/ AdmissionTest(c)
       \/ SemaDownClass(c)
       \/ Reacquire(c)
       \/ Board(c, "gs_slot")
       \/ Board(c, "gs_slot_w")
       \/ transfer_data(c)
       \/ ReleaseLock(c)
       \/ ReleaseBody(c)

\* every thread that can take its next step eventually takes it; the step
\* that completes release_slot is enabled exactly while the thread is inside
\* the critical section of release_slot (lines 289-317 hold no blocking
\* call), so its weak fairness is stated on that position
Fairness ==
  \A c \in Classes :
    /\ WF_vars(GetSlotLock(c))
    /\ WF_vars(AdmissionTest(c))
    /\ WF_vars(SemaDownClass(c))
    /\ WF_vars(Reacquire(c))
    /\ WF_vars(Board(c, "gs_slot"))
    /\ WF_vars(Board(c, "gs_slot_w"))
    /\ WF_vars(transfer_data(c))
    /\ WF_vars(ReleaseLock(c))
    /\ []<>(threads[c]["rs_cs"] = 0)

SpecFair == Init /\ [][NextFair]_vars /\ WF_vars(BatchFair) /\ Fairness

\* C12: a task that waits while the bus is active in the opposite direction
\* is neither woken nor admitted until the tasks on the bus have all released:
\* a step that signals a wait class of direction D leaves no task of the
\* other direction holding a slot, and a task of direction D boards only
\* when no task of the other direction holds a slot
Cex_C12_OppositeWaitsForEmptyBus ==
  [][\A c \in Classes :
       /\ sems'[c] > sems[c]
            => HoldingDir(other_direction(task_t(c).direction))' = 0
       /\ threads'[c]["onboard"] > threads[c]["onboard"]
            => HoldingDir(other_direction(task_t(c).direction)) = 0]_vars

\* positions of a task that has been admitted (get_slot has returned)
Admitted == {"onboard", "transferred", "rs_cs", "done"}

\* positions of a task that entered its wait class and is not yet on the bus
Queued == {"waiting", "woken", "gs_slot_w"}

\* the receive tasks have all released while every priority sender of the
\* batch stands in its wait class and no normal sender has called get_slot
ReceiversGone_SendersQueued ==
  /\ At("receiver_task", Locs) + At("recv_priority_task", Locs) > 0
  /\ At("receiver_task", Locs \ {"done"}) = 0
  /\ At("recv_priority_task", Locs \ {"done"}) = 0
  /\ At("send_priority_task", Locs) > 0
  /\ At("send_priority_task", Locs \ {"waiting", "woken"}) = 0
  /\ At("send_task", Locs) > 0
  /\ At("send_task", Locs \ {"created"}) = 0

\* C13: priority senders wait because receive tasks occupy the bus; once
\* the receive tasks have all released, every normal sender that calls
\* get_slot after that release boards only after those priority senders
Cex_C13_QueuedPriorityBeforeLateNormal ==
  [](ReceiversGone_SendersQueued
       => [](At("send_task", Admitted) > 0
               => At("send_priority_task", Queued) = 0))

\* the batch is one priority sender and one priority receiver, nothing else
IsPair ==
  /\ At("send_priority_task", Locs) = 1
  /\ At("recv_priority_task", Locs) = 1
  /\ At("send_task", Locs) = 0
  /\ At("receiver_task", Locs) = 0

OtherOfPair(c) ==
  IF c = "send_priority_task" THEN "recv_priority_task"
                              ELSE "send_priority_task"

\* the admission test of one task of the pair: it waits exactly if the
\* other task holds a slot at that moment
PairAdmission ==
  \A c \in {"send_priority_task", "recv_priority_task"} :
    (IsPair /\ threads[c]["gs_test"] = 1 /\ threads'[c]["gs_test"] = 0)
      => /\ At(OtherOfPair(c), {"onboard", "transferred"}) = 1
              => threads'[c]["waiting"] = 1
         /\ At(OtherOfPair(c), {"created", "done"}) = 1
              => threads'[c]["gs_slot"] = 1
         /\ At(OtherOfPair(c), {"created", "done", "onboard", "transferred"}) = 1

MaxStream == 3

BatchStream ==
  \E nps \in 2..MaxStream, npr \in 0..1, nr \in 0..1 :
    batch_scheduler(nps, npr, 1, nr)

StreamArrival ==
  /\ At("send_priority_task", Locs \ {"created", "done"}) = 0
  /\ At("send_priority_task", {"done"}) = 0
       => At("send_task", {"waiting"}) = 1

StreamGetSlotLock ==
  /\ StreamArrival
  /\ GetSlotLock("send_priority_task")

NextStream ==
  \/ BatchStream
  \/ StreamGetSlotLock
  \/ \E c \in Classes \ {"send_priority_task"} : GetSlotLock(c)
  \/ \E c \in Classes : AdmissionTest(c)
  \/ \E c \in Classes : SemaDownClass(c)
  \/ \E c \in Classes : Reacquire(c)
  \/ \E c \in Classes : Board(c, "gs_slot")
  \/ \E c \in Classes : Board(c, "gs_slot_w")
  \/ \E c \in Classes : transfer_data(c)
  \/ \E c \in Classes : ReleaseLock(c)
  \/ \E c \in Classes : ReleaseBody(c)

SpecStream == Init /\ [][NextStream]_vars

\* a priority sender of the stream has completed release_slot and a later
\* one is not yet on the bus
BetweenTwoOfStream ==
  /\ At("send_priority_task", {"done"}) > 0
  /\ At("send_priority_task", Locs \ Admitted) > 0

\* C15: priority senders arrive one at a time, each after the previous one
\* has completed release_slot; the normal sender that stood in the
\* normal-send wait class when the stream began does not board between two
\* of them
Cex_C15_NormalNotBetweenStream ==
  [][threads'["send_task"]["onboard"] > threads["send_task"]["onboard"]
       => ~BetweenTwoOfStream]_vars

\* C15, amended: in that stream a release signals the normal-send class only
\* when every priority sender then standing in its wait class has been
\* signalled as well (the normal sender may board between two of the stream)
Thm_C15_NormalSignalledAfterQueuedPriority ==
  [][sems'["send_task"] > sems["send_task"]
       => sems'["send_priority_task"]
            >= threads'["send_priority_task"]["waiting"]]_vars

\* a release has signalled the queued normal sender and a queued priority
\* sender of the stream together
Wit_C15_BothSignalled ==
  /\ sems["send_task"] = 1
  /\ sems["send_priority_task"] = 1
  /\ threads["send_priority_task"]["waiting"] = 1
  /\ threads["send_task"]["waiting"] = 1
  /\ At("send_priority_task", {"created"}) > 0

NormalClass(d) == IF d = SEND THEN "send_task" ELSE "receiver_task"

\* a release_slot runs while the one priority task and the one normal task
\* of direction d both stand in their wait classes
BothQueuedAtRelease(d) ==
  /\ At(PriorityClass(d), Locs) = 1
  /\ At(NormalClass(d), Locs) = 1
  /\ threads[PriorityClass(d)]["waiting"] = 1
  /\ threads[NormalClass(d)]["waiting"] = 1
  /\ AtAll({"rs_cs"}) = 1

\* C16: a priority task and a normal task of one direction are both queued
\* in their wait classes when a release_slot runs: from then on the normal
\* task is not on the bus before the priority task is
Cex_C16_PriorityBoardsFirst ==
  \A d \in {SEND, RECEIVE} :
    [](BothQueuedAtRelease(d)
         => [](At(NormalClass(d), Admitted) = 1
                 => At(PriorityClass(d), Admitted) = 1))

\* positions in which a thread holds the controller lock: between
\* sema_down(&mutex) and the sema_up(&mutex) that follows it
LockHeld == {"gs_test", "gs_slot", "gs_slot_w", "rs_cs"}

\* C17: monitor discipline: the lock is held by at most one task, exactly
\* when mutex is 0, and a task that holds it is never suspended: the only
\* blocking call made under the lock, sema_down(&bus_slots), finds a permit
Cex_C17_NoSuspensionUnderLock ==
  /\ mutex = 1 - AtAll(LockHeld)
  /\ AtAll({"gs_slot", "gs_slot_w"}) > 0 => bus_slots > 0

\* the steps of run_task in their order: get_slot (with or without a stay in
\* the wait class), transfer_data, release_slot
Lifecycle ==
  {<<"created", "gs_test">>, <<"gs_test", "gs_slot">>, <<"gs_test", "waiting">>,
   <<"waiting", "woken">>, <<"woken", "gs_slot_w">>,
   <<"gs_slot", "onboard">>, <<"gs_slot_w", "onboard">>,
   <<"onboard", "transferred">>, <<"transferred", "rs_cs">>,
   <<"rs_cs", "done">>}

\* C18: every step of a running batch moves one task one step forward along
\* CREATED -> (WAITING)? -> ONBOARD -> TRANSFERRING -> DONE: no step leads
\* back, so a task enters a wait class at most once and never after it was
\* on the bus, passes get_slot once and release_slot once, release_slot
\* after get_slot has returned; a task that waits is counted in, signalled
\* through and taken out of the wait class of its own direction and priority
Thm_C18_TaskLifecycle ==
  [][sched = "running" =>
       \E c \in Classes, e \in Lifecycle :
         /\ threads[c][e[1]] > 0
         /\ threads' = [threads EXCEPT ![c] = [@ EXCEPT ![e[1]] = @ - 1,
                                                       ![e[2]] = @ + 1]]
         /\ e = <<"gs_test", "waiting">>
              => waitcnt' = [waitcnt EXCEPT ![c] = @ + 1]
         /\ e = <<"waiting", "woken">>
              => sems' = [sems EXCEPT ![c] = @ - 1]
         /\ e = <<"woken", "gs_slot_w">>
              => waitcnt' = [waitcnt EXCEPT ![c] = @ - 1]
         /\ e \notin {<<"gs_test", "waiting">>, <<"woken", "gs_slot_w">>}
              => waitcnt' = waitcnt]_vars

\* one priority task went through its wait class and is about to board
\* while another task has finished
Wit_C18_WaitedThenBoards ==
  /\ At("send_priority_task", {"gs_slot_w"})
       + At("recv_priority_task", {"gs_slot_w"}) = 1
  /\ AtAll({"done"}) > 0

\* ---- the arguments of batch_scheduler ----
\* counts that pass the ASSERT, one that fails it, and the largest count the
\* model's integers hold: two of them add up to 2^32 - 2
LargeCount == 2147483647

ArgValues == {0, 1, MAX_NUM_OF_TASKS + 1, LargeCount}

BatchArgs ==
  \E nps \in ArgValues, npr \in ArgValues,
     ns \in ArgValues, nr \in ArgValues :
    batch_scheduler(nps, npr, ns, nr)

NextArgs ==
  \/ BatchArgs
  \/ \E c \in Classes : GetSlotLock(c)
  \/ \E c \in Classes : AdmissionTest(c)
  \/ \E c \in Classes : SemaDownClass(c)
  \/ \E c \in Classes : Reacquire(c)
  \/ \E c \in Classes : Board(c, "gs_slot")
  \/ \E c \in Classes : Board(c, "gs_slot_w")
  \/ \E c \in Classes : transfer_data(c)
  \/ \E c \in Classes : ReleaseLock(c)
  \/ \E c \in Classes : ReleaseBody(c)

SpecArgs == Init /\ [][NextArgs]_vars

\* C20: a call of batch_scheduler that asks for more than MAX_NUM_OF_TASKS
\* (200) tasks in total fails the ASSERT: it panics with no thread created
\* and the bus state as init_bus left it
Cex_C20_TooManyTasksAsserts ==
  [][\A nps \in ArgValues, npr \in ArgValues,
        ns \in ArgValues, nr \in ArgValues :
       (TotalExceeds(ns, nr, nps, npr) /\ batch_scheduler(nps, npr, ns, nr))
         => /\ sched' = "panic"
            /\ UNCHANGED <<threads, bus_slots, mutex, sems, bus_direction,
                           task_on_bus, waiting_task, waitcnt>>]_vars

\* C19: after init_bus, until the first task enters get_slot: task_on_bus
\* and waiting_task are 0, the four wait counters are 0, bus_direction is
\* -1, bus_slots holds BUS_CAPACITY = 3 permits, mutex is free and the four
\* wait-class semaphores hold no permit
Thm_C19_InitialBusState ==
  (sched \in {"init", "running"} /\ AtAll(Locs \ {"created"}) = 0)
    => /\ task_on_bus = 0
       /\ waiting_task = 0
       /\ send_task = 0 /\ receiver_task = 0
       /\ send_priority_task = 0 /\ recv_priority_task = 0
       /\ bus_direction = 0 - 1
       /\ bus_slots = BUS_CAPACITY /\ BUS_CAPACITY = 3
       /\ mutex = 1
       /\ \A c \in Classes : sems[c] = 0

\* the threads of a batch exist and none of them has entered get_slot
Wit_C19_BeforeFirstGetSlot ==
  /\ sched = "running"
  /\ AtAll({"created"}) > 0
  /\ AtAll(Locs \ {"created"}) = 0

\* ---- the HTTP server: main's accept loop and its handleConnection goroutines ----
\* a client establishes a connection; it waits in the listener's queue
Connect ==
  /\ clients > 0
  /\ clients' = clients - 1
  /\ backlog' = backlog + 1
  /\ UNCHANGED <<acceptor, semaphore, handling, closing>>
  /\ UNCHANGED busvars

\* conn, err := listener.Accept(); an error is logged and the loop continues at
\* Accept again, which leaves every variable as it was
Accept ==
  /\ acceptor = "accept"
  /\ backlog > 0
  /\ backlog' = backlog - 1
  /\ acceptor' = "acquire"
  /\ UNCHANGED <<clients, semaphore, handling, closing>>
  /\ UNCHANGED busvars

\* semaphore <- struct{}{}: blocks while the channel holds MAX_CLIENTS values
AcquireSlot ==
  /\ acceptor = "acquire"
  /\ semaphore < MAX_CLIENTS
  /\ semaphore' = semaphore + 1
  /\ acceptor' = "spawn"
  /\ UNCHANGED <<clients, backlog, handling, closing>>
  /\ UNCHANGED busvars

\* go handleConnection(conn, semaphore)
Spawn ==
  /\ acceptor = "spawn"
  /\ handling' = handling + 1
  /\ acceptor' = "accept"
  /\ UNCHANGED <<clients, backlog, semaphore, closing>>
  /\ UNCHANGED busvars

\* the body of handleConnection up to its return, then the deferred function
\* registered last, which runs first: <-semaphore
handleConnection ==
  /\ handling > 0
  /\ semaphore > 0
  /\ handling' = handling - 1
  /\ semaphore' = semaphore - 1
  /\ closing' = closing + 1
  /\ UNCHANGED <<clients, backlog, acceptor>>
  /\ UNCHANGED busvars

\* the deferred call registered first, which runs last: conn.Close(); the
\* goroutine ends when it returns
ConnClose ==
  /\ closing > 0
  /\ closing' = closing - 1
  /\ UNCHANGED <<clients, backlog, acceptor, semaphore, handling>>
  /\ UNCHANGED busvars

NextServer ==
  \/ Connect
  \/ Accept
  \/ AcquireSlot
  \/ Spawn
  \/ handleConnection
  \/ ConnClose

SpecServer == Init /\ [][NextServer]_vars

\* C21: at every instant at most MAX_CLIENTS handleConnection goroutines are
\* running, the accept loop spawning an 11th only after one of 10 has finished
Cex_C21_AtMostMaxClientsHandlers == handling + closing <= MAX_CLIENTS

\* C22: a task whose admission test runs while task_on_bus + waiting_task >=
\* BUS_CAPACITY is not admitted immediately: the step that takes it out of the
\* test does not take it to sema_down(&bus_slots)
Cex_C22_ReservedSlotsCountAtAdmission ==
  [][\A c \in Classes :
       (/\ task_on_bus + waiting_task >= BUS_CAPACITY
        /\ threads'[c]["gs_test"] < threads[c]["gs_test"])
         => threads'[c]["gs_slot"] = threads[c]["gs_slot"]]_vars

\* C23: in every reachable state task_on_bus + waiting_task <= BUS_CAPACITY:
\* the slots held by onboard tasks plus the slots reserved by wakes never
\* exceed the capacity
Cex_C23_OccupiedPlusReservedWithinCapacity ==
  task_on_bus + waiting_task <= BUS_CAPACITY

\* tasks of class c that a release has woken and that have not yet re-acquired
\* the lock: those past sema_down(sem), and those still suspended in it for
\* which a signal is already posted
InFlight(c) ==
  threads[c]["woken"] +
    (IF sems[c] < threads[c]["waiting"] THEN sems[c] ELSE threads[c]["waiting"])

\* C24: waiting_task equals the number of tasks that a release has woken and
\* that have not yet gone on to board; it is 0 whenever no such task exists
Cex_C24_ReservedCountsWokenTasks ==
  waiting_task = SumOver([c \in Classes |-> InFlight(c)], Classes)

\* C25: a task whose admission test runs while bus_direction is neither idle
\* nor its own direction is not admitted immediately, whatever its priority
\* and the free capacity: it enters its wait class
Thm_C25_OppositeDirectionMustWait ==
  [][\A c \in Classes :
       (/\ bus_direction # IDLE
        /\ bus_direction # task_t(c).direction
        /\ threads'[c]["gs_test"] < threads[c]["gs_test"])
         => /\ threads'[c]["waiting"] = threads[c]["waiting"] + 1
            /\ threads'[c]["gs_slot"] = threads[c]["gs_slot"]
            /\ waitcnt'[c] = waitcnt[c] + 1]_vars

\* a priority receiver waits although one task only has been admitted so far,
\* a sender that is still on the bus
Wit_C25_PriorityWaitsBelowCapacity ==
  /\ At("recv_priority_task", {"waiting"}) > 0
  /\ bus_direction = SEND
  /\ task_on_bus = 1
  /\ AtAll(Admitted) = 1

\* none of the conditions for waiting holds for a task of class c: the bus is
\* not full, it is idle or runs in the task's direction, and a normal task
\* finds no priority task of its direction queued
NoWaitCondition(c) ==
  /\ task_on_bus < BUS_CAPACITY
  /\ bus_direction = IDLE \/ bus_direction = task_t(c).direction
  /\ task_t(c).priority = NORMAL => waitcnt[PriorityClass(task_t(c).direction)] = 0

\* C26: a task for which no condition for waiting holds is admitted without
\* entering a wait class: it goes on to a slot that is free, and its boarding
\* adds exactly 1 to task_on_bus, sets bus_direction to its direction and
\* leaves the four wait counters and waiting_task as they were
Thm_C26_ImmediateAdmissionFrame ==
  [][\A c \in Classes :
       /\ (NoWaitCondition(c) /\ threads'[c]["gs_test"] < threads[c]["gs_test"])
            => /\ threads'[c]["gs_slot"] = threads[c]["gs_slot"] + 1
               /\ threads'[c]["waiting"] = threads[c]["waiting"]
               /\ bus_slots' > 0
               /\ UNCHANGED <<waitcnt, waiting_task, task_on_bus, bus_direction>>
       /\ threads'[c]["gs_slot"] < threads[c]["gs_slot"]
            => /\ threads'[c]["onboard"] = threads[c]["onboard"] + 1
               /\ task_on_bus' = task_on_bus + 1
               /\ bus_direction' = task_t(c).direction
               /\ UNCHANGED <<waitcnt, waiting_task>>]_vars

\* the first task of a batch is on the bus and no task has waited or released
Wit_C26_FirstTaskAdmitted ==
  /\ At("send_task", {"onboard"}) = 1
  /\ task_on_bus = 1
  /\ bus_direction = SEND
  /\ AtAll(Locs \ {"created", "gs_test", "onboard"}) = 0

\* C27: a woken task that re-acquires the lock takes 1 from its own wait
\* counter and 1 from waiting_task, leaving the other three counters as they
\* were, and goes on to board, which adds 1 to task_on_bus; it never returns
\* to the admission test or to a wait class
Thm_C27_WokenTaskFrame ==
  [][\A c \in Classes :
       /\ threads'[c]["woken"] < threads[c]["woken"]
            => /\ threads'[c]["gs_slot_w"] = threads[c]["gs_slot_w"] + 1
               /\ waitcnt' = [waitcnt EXCEPT ![c] = @ - 1]
               /\ waiting_task' = waiting_task - 1
               /\ UNCHANGED <<task_on_bus, bus_direction>>
       /\ threads'[c]["gs_slot_w"] < threads[c]["gs_slot_w"]
            => /\ threads'[c]["onboard"] = threads[c]["onboard"] + 1
               /\ task_on_bus' = task_on_bus + 1
               /\ UNCHANGED <<waitcnt, waiting_task>>]_vars

\* a woken task holds the lock on its way to the bus, with a slot free, in a
\* state where the admission test would make it wait
Wit_C27_BoardsAgainstTest ==
  \E c \in Classes :
    /\ At(c, {"gs_slot_w"}) > 0
    /\ must_wait(task_t(c))
    /\ bus_slots > 0

\* C28: release_slot writes none of the four wait counters: it adds to
\* waiting_task exactly the number of signals it posts on the class
\* semaphores; a wait counter changes only in a step of a task of its own
\* class, and goes down only when that task has been woken and re-acquires
\* the lock
Thm_C28_WaitCountersOwnedByWaiters ==
  [][/\ AtAll({"rs_cs"})' < AtAll({"rs_cs"})
          => /\ waitcnt' = waitcnt
             /\ \A c \in Classes : sems'[c] >= sems[c]
             /\ waiting_task' - waiting_task =
                  SumOver([c \in Classes |-> sems'[c] - sems[c]], Classes)
     /\ \A c \in Classes :
          /\ waitcnt'[c] # waitcnt[c]
               => /\ threads'[c] # threads[c]
                  /\ \A o \in Classes \ {c} : threads'[o] = threads[o]
          /\ waitcnt'[c] < waitcnt[c]
               => /\ waitcnt'[c] = waitcnt[c] - 1
                  /\ threads'[c]["woken"] = threads[c]["woken"] - 1]_vars

\* a release has signalled a queued task, which is still counted in its
\* wait counter
Wit_C28_SignalledStillCounted ==
  \E c \in Classes :
    /\ sems[c] > 0
    /\ waiting_task > 0
    /\ waitcnt[c] > 0
    /\ At(c, {"waiting"}) > 0
    /\ AtAll({"done"}) > 0

\* C29: release_slot takes exactly 1 from task_on_bus; while tasks remain on
\* the bus it leaves bus_direction as it was; when the bus empties the
\* direction is idle before the wake passes run, so both sides are served
\* whatever the direction was: a queued task is signalled if a slot is not
\* reserved already, and the direction ends idle exactly when no task was
\* signalled, otherwise as the direction of the signalled tasks
Thm_C29_DecrementThenIdleBeforePasses ==
  [][AtAll({"rs_cs"})' < AtAll({"rs_cs"})
       => /\ task_on_bus' = task_on_bus - 1
          /\ task_on_bus' > 0 => bus_direction' = bus_direction
          /\ task_on_bus' = 0
               => /\ (bus_direction' = IDLE) = (sems' = sems)
                  /\ \A c \in Classes :
                       sems'[c] > sems[c] => bus_direction' = task_t(c).direction
                  /\ (waiting_task < BUS_CAPACITY /\ \E c \in Classes : waitcnt[c] > 0)
                       => sems' # sems]_vars

\* the last sender has released and its release has signalled a receiver:
\* no receive task has been on the bus yet
Wit_C29_EmptiedBusWakesOtherSide ==
  /\ task_on_bus = 0
  /\ bus_direction = RECEIVE
  /\ sems["receiver_task"] + sems["recv_priority_task"] > 0
  /\ At("send_task", {"done"}) + At("send_priority_task", {"done"}) > 0
  /\ At("receiver_task", Admitted) + At("recv_priority_task", Admitted) = 0

SendSide == {"send_task", "send_priority_task"}
ReceiveSide == {"receiver_task", "recv_priority_task"}

\* the bus_direction the wake passes of a release start from
DirectionAtPasses == IF task_on_bus - 1 = 0 THEN IDLE ELSE bus_direction

\* C30: one release_slot call signals tasks of one direction at most: none of
\* the send side when the passes start with direction receive, none of the
\* receive side when they start with direction send, and none of the receive
\* side when a task of the send side has been signalled
Thm_C30_ReleaseWakesOneDirection ==
  [][AtAll({"rs_cs"})' < AtAll({"rs_cs"})
       => /\ DirectionAtPasses = RECEIVE => \A c \in SendSide : sems'[c] = sems[c]
          /\ DirectionAtPasses = SEND => \A c \in ReceiveSide : sems'[c] = sems[c]
          /\ (\E c \in SendSide : sems'[c] > sems[c])
               => \A c \in ReceiveSide : sems'[c] = sems[c]]_vars

\* a release that emptied the bus has signalled a sender while a receiver
\* stays queued without a signal
Wit_C30_SendersWokenReceiversLeft ==
  /\ task_on_bus = 0
  /\ bus_direction = SEND
  /\ sems["send_task"] + sems["send_priority_task"] > 0
  /\ sems["receiver_task"] + sems["recv_priority_task"] = 0
  /\ At("receiver_task", {"waiting"}) + At("recv_priority_task", {"waiting"}) > 0
  /\ AtAll({"woken", "gs_slot_w"}) = 0

\* ---- batches of priority senders with one normal sender and at most one
\* receiver, large enough for the wake budget of a release to go below zero
\* while a task of each send class is queued ----
MaxMixed == 4

BatchMixed ==
  \E nps \in 1..MaxMixed, nr \in 0..1 : batch_scheduler(nps, 0, 1, nr)

NextMixed ==
  \/ BatchMixed
  \/ \E c \in Classes : GetSlotLock(c)
  \/ \E c \in Classes : AdmissionTest(c)
  \/ \E c \in Classes : SemaDownClass(c)
  \/ \E c \in Classes : Reacquire(c)
  \/ \E c \in Classes : Board(c, "gs_slot")
  \/ \E c \in Classes : Board(c, "gs_slot_w")
  \/ \E c \in Classes : transfer_data(c)
  \/ \E c \in Classes : ReleaseLock(c)
  \/ \E c \in Classes : ReleaseBody(c)

SpecMixed == Init /\ [][NextMixed]_vars

\* the wake budget a release_slot starts its passes with
BudgetAtRelease == BUS_CAPACITY - (task_on_bus - 1) - waiting_task

\* C31: in a release_slot whose budget does not exceed the priority wait
\* counter of a direction, no normal task of that direction is signalled:
\* normal waiters get only what the priority waiters leave of the budget
Cex_C31_NormalWokenFromRemainder ==
  [][AtAll({"rs_cs"})' < AtAll({"rs_cs"})
       => \A d \in {SEND, RECEIVE} :
            waitcnt[PriorityClass(d)] >= BudgetAtRelease
              => sems'[NormalClass(d)] = sems[NormalClass(d)]]_vars

\* C32: a release_slot signals a normal task of a direction only if the
\* priority wait counter of the opposite direction is 0 when it runs
Thm_C32_NormalWokenOnlyWithoutOpposingPriority ==
  [][AtAll({"rs_cs"})' < AtAll({"rs_cs"})
       => \A d \in {SEND, RECEIVE} :
            sems'[NormalClass(d)] > sems[NormalClass(d)]
              => waitcnt[PriorityClass(other_direction(d))] = 0]_vars

\* a release_slot is running with budget left and its send pass open while a
\* normal sender and a priority receiver are both counted as waiting
Wit_C32_NormalSenderHeldBack ==
  /\ AtAll({"rs_cs"}) = 1
  /\ BudgetAtRelease > 0
  /\ DirectionAtPasses # RECEIVE
  /\ send_task > 0
  /\ recv_priority_task > 0
  /\ has_sender_semaphore = 0

\* C33: when release_slot returns after signalling a task of a direction,
\* bus_direction is that direction; when it returns having signalled no task
\* and task_on_bus is 0, bus_direction is idle
Thm_C33_DirectionAfterRelease ==
  [][AtAll({"rs_cs"})' < AtAll({"rs_cs"})
       => /\ \A c \in Classes :
               sems'[c] > sems[c] => bus_direction' = task_t(c).direction
          /\ (sems' = sems /\ task_on_bus' = 0) => bus_direction' = IDLE]_vars

\* a sender has released while senders stay on the bus, and a queued sender
\* holds a signal it has not consumed yet
Wit_C33_WokenIntoRunningDirection ==
  /\ mutex = 1
  /\ task_on_bus > 0
  /\ bus_direction = SEND
  /\ has_sender_semaphore + has_sender_priority_semaphore > 0
  /\ At("send_task", {"done"}) + At("send_priority_task", {"done"}) > 0

\* ---- a stream of priority senders against queued priority receivers: the
\* first priority sender calls get_slot at any time, every further one only
\* while a priority receiver stands in its wait class and the bus runs in
\* direction send ----
MaxStarve == 5

BatchStarve ==
  \E nps \in 2..MaxStarve, npr \in 1..2 : batch_scheduler(nps, npr, 0, 0)

StarveArrival ==
  At("send_priority_task", Locs \ {"created"}) > 0
    => /\ At("recv_priority_task", {"waiting"}) > 0
       /\ bus_direction = SEND
       /\ task_on_bus > 0

StarveGetSlotLock ==
  /\ StarveArrival
  /\ GetSlotLock("send_priority_task")

NextStarve ==
  \/ BatchStarve
  \/ StarveGetSlotLock
  \/ \E c \in Classes \ {"send_priority_task"} : GetSlotLock(c)
  \/ \E c \in Classes : AdmissionTest(c)
  \/ \E c \in Classes : SemaDownClass(c)
  \/ \E c \in Classes : Reacquire(c)
  \/ \E c \in Classes : Board(c, "gs_slot")
  \/ \E c \in Classes : Board(c, "gs_slot_w")
  \/ \E c \in Classes : transfer_data(c)
  \/ \E c \in Classes : ReleaseLock(c)
  \/ \E c \in Classes : ReleaseBody(c)

SpecStarve == Init /\ [][NextStarve]_vars

\* C34: a priority task whose admission test runs while the bus runs in its
\* own direction below capacity is admitted immediately, also when priority
\* tasks of the other direction are queued; and a release that leaves tasks
\* on the bus signals no task of the other direction, so the queued task
\* stays queued for as long as such arrivals keep the bus occupied
Thm_C34_SameDirectionPriorityPassesWaiter ==
  [][/\ \A d \in {SEND, RECEIVE} :
          (/\ bus_direction = d
           /\ task_on_bus > 0
           /\ task_on_bus < BUS_CAPACITY
           /\ threads'[PriorityClass(d)]["gs_test"] < threads[PriorityClass(d)]["gs_test"])
            => /\ threads'[PriorityClass(d)]["gs_slot"] = threads[PriorityClass(d)]["gs_slot"] + 1
               /\ waitcnt' = waitcnt
     /\ (AtAll({"rs_cs"})' < AtAll({"rs_cs"}) /\ task_on_bus' > 0)
          => \A c \in Classes :
               task_t(c).direction # bus_direction => sems'[c] = sems[c]]_vars

\* every priority sender but the last has finished and the last is on the
\* bus, all but the first having arrived while a priority receiver was
\* queued; that receiver is still queued and has not been signalled
Wit_C34_StreamPassedQueuedReceiver ==
  /\ At("send_priority_task", Locs) = MaxStarve
  /\ At("send_priority_task", {"done"}) = MaxStarve - 1
  /\ At("send_priority_task", {"onboard"}) = 1
  /\ At("recv_priority_task", {"waiting"}) > 0
  /\ recv_priority_task > 0
  /\ has_receiver_priority_semaphore = 0

\* C35: mutex is 0 or 1 and is 0 exactly while one task is between
\* sema_down(&mutex) and sema_up(&mutex), never two; and a step of a task
\* that changes task_on_bus, bus_direction, waiting_task or a wait counter
\* is made by the task that holds the lock: it held it before the step or
\* takes it in the step, and it is the only task that moved
Thm_C35_CountersUnderLock ==
  /\ [](/\ mutex \in {0, 1}
        /\ AtAll(LockHeld) <= 1
        /\ mutex = 1 - AtAll(LockHeld))
  /\ [][(/\ threads' # threads
          /\ <<task_on_bus, bus_direction, waiting_task, waitcnt>>' #
               <<task_on_bus, bus_direction, waiting_task, waitcnt>>)
          => \E c \in Classes :
               /\ \A o \in Classes \ {c} : threads'[o] = threads[o]
               /\ \/ mutex = 0 /\ At(c, LockHeld) = 1
                  \/ mutex = 1 /\ mutex' = 0 /\ At(c, LockHeld)' = 1]_vars

\* one task holds the lock inside release_slot while a new arrival and a
\* woken task both stand at sema_down(&mutex)
Wit_C35_TwoContendOneHolds ==
  /\ mutex = 0
  /\ AtAll({"rs_cs"}) = 1
  /\ AtAll({"created"}) > 0
  /\ AtAll({"woken"}) > 0

\* C36: for each wait class the signals posted on its semaphore and not yet
\* consumed never outnumber the tasks suspended on it: no queued task is
\* signalled twice and no permit is left over for a later task
Cex_C36_NoStalePermits ==
  \A c \in Classes : sems[c] <= threads[c]["waiting"]

\* every task of the batch has returned from release_slot
AllReleased == AtAll({"done"}) > 0 /\ AtAll(Locs \ {"done"}) = 0

\* C37: once every task of a batch has completed release_slot the shared
\* state is the one init_bus left: no task counted on the bus or as woken,
\* the wait counters 0, the direction idle, bus_slots at BUS_CAPACITY, the
\* lock free and no permit on a wait-class semaphore
Cex_C37_QuiescentStateIsInitial ==
  AllReleased
    => /\ task_on_bus = 0
       /\ waiting_task = 0
       /\ waitcnt = [c \in Classes |-> 0]
       /\ bus_direction = IDLE
       /\ bus_slots = BUS_CAPACITY
       /\ mutex = 1
       /\ sems = [c \in Classes |-> 0]

\* C38: in every state where the lock is free, task_on_bus is 0 and
\* waiting_task is 0, no task is suspended on a wait-class semaphore
Thm_C38_NoLostWakeup ==
  (mutex = 1 /\ task_on_bus = 0 /\ waiting_task = 0) => AtAll({"waiting"}) = 0

\* the bus stands empty with the lock free and nothing reserved in the
\* middle of a batch of both directions: tasks of each direction have
\* released and others have not called get_slot yet
Wit_C38_IdleBetweenPhases ==
  /\ mutex = 1
  /\ task_on_bus = 0
  /\ waiting_task = 0
  /\ At("send_task", {"done"}) + At("send_priority_task", {"done"}) > 0
  /\ At("receiver_task", {"done"}) + At("recv_priority_task", {"done"}) > 0
  /\ AtAll({"created"}) > 0

\* C39: whenever the lock is free, bus_slots holds BUS_CAPACITY - task_on_bus
\* permits: the slot semaphore and the counter agree on the slots taken
Thm_C39_SlotsMatchCounter ==
  mutex = 1 => bus_slots = BUS_CAPACITY - task_on_bus

\* the lock is free with two tasks on the bus, one task finished and a woken
\* task on its way
Wit_C39_PartlyFilledBus ==
  /\ mutex = 1
  /\ task_on_bus = 2
  /\ bus_slots = 1
  /\ AtAll({"done"}) > 0
  /\ AtAll({"woken"}) > 0

\* min(max(0, budget), waiting)
ClampedWake(budget, waiting) ==
  LET b == IF budget > 0 THEN budget ELSE 0
  IN IF b < waiting THEN b ELSE waiting

\* C40: a call of wakeup_waiting_task signals min(max(0, budget), waiting)
\* tasks, none when the budget BUS_CAPACITY - task_on_bus - waiting_task is
\* zero or negative: seen on the first call of a release_slot whose send
\* pass runs, the call for the priority senders
Cex_C40_WakeCountClamped ==
  [][(AtAll({"rs_cs"})' < AtAll({"rs_cs"}) /\ DirectionAtPasses # RECEIVE)
       => has_sender_priority_semaphore' - has_sender_priority_semaphore =
            ClampedWake(BudgetAtRelease, send_priority_task)]_vars

====
